---- MODULE Spec2Model ----
(***************************************************************************)
(* A model of the two MLDashboard components of see-my-model:              *)
(*   - the anomaly-factor dashboard (src/src/components/MLDashboard.tsx),  *)
(*   - the embedding-vector dashboard (src/unnamed/part_000).              *)
(*                                                                         *)
(* Numbers.  The factor fields are JavaScript numbers.  Every numeric      *)
(* field except body_temperature is modelled in whole units (the default   *)
(* step of an <Input type="number">); body_temperature, whose input has    *)
(* step="0.1", is modelled in tenths of a degree, so 36.5 is 365, 38.5 is  *)
(* 385 and 39.2 is 392.  Probabilities are modelled in hundredths.         *)
(***************************************************************************)
EXTENDS Integers, Sequences, FiniteSets, TLC

VARIABLES
    factors,        \* useState<AnomalyFactors>            (MLDashboard.tsx:32)
    prediction,     \* useState<PredictionResult | null>   (MLDashboard.tsx:42)
    isLoading,      \* useState(false)                     (MLDashboard.tsx:43)
    pending,        \* handlePredict calls suspended at the await of line 70, oldest first
    toasts,         \* the last notice given to sonner's toast, or NoToast
    evaluated,      \* history: the factors record the stored prediction was computed from
    edits,          \* history: number of form-field edits so far (bounded by MaxEdits)
    embeddings,     \* useState<string>("")                    (part_000:19)
    embPrediction,  \* useState<PredictionResult | null>       (part_000:20)
    embIsLoading,   \* useState(false)                         (part_000:21)
    embPending,     \* number of handlePredict calls suspended at the await of part_000:46
    embToasts       \* the last notice given to toast by the embedding dashboard

anomalyVars == <<factors, prediction, isLoading, pending, toasts, evaluated, edits>>
embedVars == <<embeddings, embPrediction, embIsLoading, embPending, embToasts>>
vars == <<anomalyVars, embedVars>>

\* Bound on the number of form-field edits in one run.
MaxEdits == 2

\* Bound on the length of the text typed into the embedding textarea.
MaxLen == 3

\* null, as a record so that it compares with the records stored in its place.
NULL == [null |-> TRUE]
NoToast == [kind |-> "none", message |-> ""]

ToastSuccess(msg) == [kind |-> "success", message |-> msg]
ToastError(msg) == [kind |-> "error", message |-> msg]

(***************************************************************************)
(* The anomaly dashboard: state after construction.                        *)
(***************************************************************************)
\* Mutant: every numeric field starts at 0.
DefaultFactorsAllZero ==
    [ deviation_score          |-> 0,
      time_since_last_activity |-> 0,
      signal_status            |-> "normal",
      altitude_change          |-> 0,
      heart_rate               |-> 0,
      oxygen_saturation        |-> 0,
      body_temperature         |-> 0,
      fall_detected            |-> FALSE ]

\* The initial factors, lines 32-41.
DefaultFactors ==
    [ deviation_score          |-> 0,
      time_since_last_activity |-> 0,
      signal_status            |-> "normal",
      altitude_change          |-> 0,
      heart_rate               |-> 70,
      oxygen_saturation        |-> 98,
      body_temperature         |-> 365,
      fall_detected            |-> FALSE ]

\* Mutant: the sample's heart rate sits on the threshold.
SampleFactorsOnThreshold ==
    [ deviation_score          |-> 250,
      time_since_last_activity |-> 35,
      signal_status            |-> "silent",
      altitude_change          |-> -20,
      heart_rate               |-> 150,
      oxygen_saturation        |-> 85,
      body_temperature         |-> 392,
      fall_detected            |-> TRUE ]

\* The record of loadSampleData, lines 92-101.
SampleFactors ==
    [ deviation_score          |-> 250,
      time_since_last_activity |-> 35,
      signal_status            |-> "silent",
      altitude_change          |-> -20,
      heart_rate               |-> 160,
      oxygen_saturation        |-> 85,
      body_temperature         |-> 392,
      fall_detected            |-> TRUE ]

(***************************************************************************)
(* The rule evaluation of handlePredict, lines 56-67: an empty array and   *)
(* ten conditional pushes, in source order.                                *)
(***************************************************************************)
Push(arr, cond, label) == IF cond THEN Append(arr, label) ELSE arr

\* Mutant: the array outlives the call and keeps the labels of the stored prediction.
EmptyTriggeredStale == IF prediction = NULL THEN <<>> ELSE prediction.triggered_factors

\* Line 56.
EmptyTriggered == <<>>

\* Mutant: the heart-rate and oxygen pushes in the other order.
TriggeredFactorsReordered(f) ==
    LET t0  == EmptyTriggered
        t1  == Push(t0, f.deviation_score > 200, "Route deviation")
        t2  == Push(t1, f.time_since_last_activity > 30, "Prolonged inactivity")
        t3  == Push(t2, f.signal_status = "silent" /\ f.time_since_last_activity > 20,
                    "Silent behavior")
        t4  == Push(t3, f.signal_status = "missing", "Missing signal")
        t5  == Push(t4, f.signal_status = "distress", "Distress signal")
        t6  == Push(t5, f.altitude_change < -15, "Sudden altitude drop")
        t7  == Push(t6, f.oxygen_saturation < 90, "Oxygen anomaly")
        t8  == Push(t7, f.heart_rate < 45 \/ f.heart_rate > 150, "Heart rate anomaly")
        t9  == Push(t8, f.body_temperature > 385, "Temperature anomaly")
        t10 == Push(t9, f.fall_detected, "Fall detected")
    IN  t10

\* Mutant: the upper heart-rate comparison is not strict.
TriggeredFactorsInclusive(f) ==
    LET t0  == EmptyTriggered
        t1  == Push(t0, f.deviation_score > 200, "Route deviation")
        t2  == Push(t1, f.time_since_last_activity > 30, "Prolonged inactivity")
        t3  == Push(t2, f.signal_status = "silent" /\ f.time_since_last_activity > 20,
                    "Silent behavior")
        t4  == Push(t3, f.signal_status = "missing", "Missing signal")
        t5  == Push(t4, f.signal_status = "distress", "Distress signal")
        t6  == Push(t5, f.altitude_change < -15, "Sudden altitude drop")
        t7  == Push(t6, f.heart_rate < 45 \/ f.heart_rate >= 150, "Heart rate anomaly")
        t8  == Push(t7, f.oxygen_saturation < 90, "Oxygen anomaly")
        t9  == Push(t8, f.body_temperature > 385, "Temperature anomaly")
        t10 == Push(t9, f.fall_detected, "Fall detected")
    IN  t10

\* Mutant: the missing-signal rule tests for any status other than "normal".
TriggeredFactorsNotNormal(f) ==
    LET t0  == EmptyTriggered
        t1  == Push(t0, f.deviation_score > 200, "Route deviation")
        t2  == Push(t1, f.time_since_last_activity > 30, "Prolonged inactivity")
        t3  == Push(t2, f.signal_status = "silent" /\ f.time_since_last_activity > 20,
                    "Silent behavior")
        t4  == Push(t3, f.signal_status # "normal", "Missing signal")
        t5  == Push(t4, f.signal_status = "distress", "Distress signal")
        t6  == Push(t5, f.altitude_change < -15, "Sudden altitude drop")
        t7  == Push(t6, f.heart_rate < 45 \/ f.heart_rate > 150, "Heart rate anomaly")
        t8  == Push(t7, f.oxygen_saturation < 90, "Oxygen anomaly")
        t9  == Push(t8, f.body_temperature > 385, "Temperature anomaly")
        t10 == Push(t9, f.fall_detected, "Fall detected")
    IN  t10

TriggeredFactors(f) ==
    LET t0  == EmptyTriggered
        t1  == Push(t0, f.deviation_score > 200, "Route deviation")
        t2  == Push(t1, f.time_since_last_activity > 30, "Prolonged inactivity")
        t3  == Push(t2, f.signal_status = "silent" /\ f.time_since_last_activity > 20,
                    "Silent behavior")
        t4  == Push(t3, f.signal_status = "missing", "Missing signal")
        t5  == Push(t4, f.signal_status = "distress", "Distress signal")
        t6  == Push(t5, f.altitude_change < -15, "Sudden altitude drop")
        t7  == Push(t6, f.heart_rate < 45 \/ f.heart_rate > 150, "Heart rate anomaly")
        t8  == Push(t7, f.oxygen_saturation < 90, "Oxygen anomaly")
        t9  == Push(t8, f.body_temperature > 385, "Temperature anomaly")
        t10 == Push(t9, f.fall_detected, "Fall detected")
    IN  t10

\* Mutant: an oxygen saturation outside 0..100 is rejected with an exception.
TryBodyValidating(f) ==
    IF f.oxygen_saturation < 0 \/ f.oxygen_saturation > 100
    THEN [threw |-> TRUE, message |-> "Invalid oxygen saturation", triggeredFactors |-> <<>>]
    ELSE [threw |-> FALSE, message |-> "", triggeredFactors |-> TriggeredFactors(f)]

\* The synchronous part of the try block (lines 54-70): nothing in it throws.
TryBody(f) == [threw |-> FALSE, message |-> "", triggeredFactors |-> TriggeredFactors(f)]

\* Math.random() of line 73, in hundredths: the two ends of [0, 1).
MathRandom == {0, 99}

\* Mutant: the flag needs more than one triggered factor.
AnomalyFlagOffByOne(triggeredFactors) == Len(triggeredFactors) > 1

\* Line 72.
AnomalyFlag(triggeredFactors) == Len(triggeredFactors) > 0

\* Line 73, in hundredths: 0.85 + r * 0.15 or 0.15 + r * 0.3.
MockProbability(anomaly_flag, r) ==
    IF anomaly_flag THEN 85 + (r * 15) \div 100 ELSE 15 + (r * 30) \div 100

\* Line 77.
PredictionLabel(anomaly_flag) ==
    IF anomaly_flag THEN "Anomaly Detected" ELSE "Normal Behavior"

\* The object given to setPrediction, lines 75-81.
PredictionResult(triggeredFactors, r) ==
    LET anomaly_flag == AnomalyFlag(triggeredFactors)
        mockProbability == MockProbability(anomaly_flag, r)
    IN  [ probability       |-> mockProbability,
          prediction        |-> PredictionLabel(anomaly_flag),
          confidence        |-> mockProbability,
          anomaly_flag      |-> anomaly_flag,
          triggered_factors |-> triggeredFactors ]

Init ==
    /\ factors = DefaultFactors
    /\ prediction = NULL
    /\ isLoading = FALSE
    /\ pending = <<>>
    /\ toasts = NoToast
    /\ evaluated = NULL
    /\ edits = 0
    /\ embeddings = <<>>
    /\ embPrediction = NULL
    /\ embIsLoading = FALSE
    /\ embPending = 0
    /\ embToasts = NoToast

(***************************************************************************)
(* handlePredict, lines 51-89.  The button is disabled while isLoading     *)
(* (line 248).  The call runs synchronously to the await of line 70; when  *)
(* the try block throws before it, catch and finally run in the same step. *)
(***************************************************************************)
\* Mutant: the button is not disabled while isLoading.
HandlePredictNotDisabled ==
    /\ LET r == TryBody(factors) IN
         IF r.threw
         THEN /\ toasts' = ToastError(r.message)
              /\ isLoading' = FALSE
              /\ UNCHANGED pending
         ELSE /\ isLoading' = TRUE
              /\ pending' = Append(pending,
                     [factors |-> factors, triggeredFactors |-> r.triggeredFactors])
              /\ UNCHANGED toasts
    /\ UNCHANGED <<factors, prediction, evaluated, edits, embedVars>>

HandlePredict ==
    /\ ~isLoading
    /\ LET r == TryBody(factors) IN
         IF r.threw
         THEN /\ toasts' = ToastError(r.message)
              /\ isLoading' = FALSE
              /\ UNCHANGED pending
         ELSE /\ isLoading' = TRUE
              /\ pending' = Append(pending,
                     [factors |-> factors, triggeredFactors |-> r.triggeredFactors])
              /\ UNCHANGED toasts
    /\ UNCHANGED <<factors, prediction, evaluated, edits, embedVars>>

\* Mutant: the rules are evaluated after the delay, over the factors of that moment.
TimerFiresLatestFactors ==
    /\ pending # <<>>
    /\ \E r \in MathRandom :
         prediction' = PredictionResult(TriggeredFactors(factors), r)
    /\ evaluated' = Head(pending).factors
    /\ toasts' = ToastSuccess("Prediction completed successfully!")
    /\ isLoading' = FALSE
    /\ pending' = Tail(pending)
    /\ UNCHANGED <<factors, edits, embedVars>>

\* Mutant: setIsLoading(false) is left out of the continuation.
TimerFiresKeepsLoading ==
    /\ pending # <<>>
    /\ \E r \in MathRandom :
         prediction' = PredictionResult(Head(pending).triggeredFactors, r)
    /\ evaluated' = Head(pending).factors
    /\ toasts' = ToastSuccess("Prediction completed successfully!")
    /\ pending' = Tail(pending)
    /\ UNCHANGED <<isLoading, factors, edits, embedVars>>

\* The timer of line 70 fires and the oldest suspended call runs lines 72-88.
TimerFires ==
    /\ pending # <<>>
    /\ \E r \in MathRandom :
         prediction' = PredictionResult(Head(pending).triggeredFactors, r)
    /\ evaluated' = Head(pending).factors
    /\ toasts' = ToastSuccess("Prediction completed successfully!")
    /\ isLoading' = FALSE
    /\ pending' = Tail(pending)
    /\ UNCHANGED <<factors, edits, embedVars>>

\* loadSampleData, lines 91-103.
LoadSampleData ==
    /\ factors' = SampleFactors
    /\ toasts' = ToastSuccess("Sample anomaly data loaded")
    /\ UNCHANGED <<prediction, isLoading, pending, evaluated, edits, embedVars>>

(***************************************************************************)
(* The six number inputs, lines 174-236: each onChange replaces one field  *)
(* of the factors record.  The values typed straddle each threshold.       *)
(***************************************************************************)
DeviationInputs   == {200, 201}
InactivityInputs  == {20, 21, 30, 31}
HeartRateInputs   == {44, 45, 150, 151}
OxygenInputs      == {-1, 89, 90}
TemperatureInputs == {385, 386}
AltitudeInputs    == {-16, -15}

\* Mutant: the edit rebuilds the record without the fall flag.
EditDropsFallFlag(f) ==
    /\ edits < MaxEdits
    /\ edits' = edits + 1
    /\ factors' = [f EXCEPT !.fall_detected = FALSE]
    /\ UNCHANGED <<prediction, isLoading, pending, toasts, evaluated, embedVars>>

\* setFactors({...factors, field: Number(e.target.value)}), lines 181-232.
Edit(f) ==
    /\ edits < MaxEdits
    /\ edits' = edits + 1
    /\ factors' = f
    /\ UNCHANGED <<prediction, isLoading, pending, toasts, evaluated, embedVars>>

SetDeviationScore ==
    \E v \in DeviationInputs : Edit([factors EXCEPT !.deviation_score = v])

SetTimeSinceLastActivity ==
    \E v \in InactivityInputs : Edit([factors EXCEPT !.time_since_last_activity = v])

SetHeartRate ==
    \E v \in HeartRateInputs : Edit([factors EXCEPT !.heart_rate = v])

SetOxygenSaturation ==
    \E v \in OxygenInputs : Edit([factors EXCEPT !.oxygen_saturation = v])

SetBodyTemperature ==
    \E v \in TemperatureInputs : Edit([factors EXCEPT !.body_temperature = v])

SetAltitudeChange ==
    \E v \in AltitudeInputs : Edit([factors EXCEPT !.altitude_change = v])

Next ==
    \/ HandlePredict
    \/ TimerFires
    \/ LoadSampleData
    \/ SetDeviationScore
    \/ SetTimeSinceLastActivity
    \/ SetHeartRate
    \/ SetOxygenSaturation
    \/ SetBodyTemperature
    \/ SetAltitudeChange

Spec == Init /\ [][Next]_vars

(***************************************************************************)
(* The rule evaluation as a function of its input: the factors record is   *)
(* drawn from value sets that straddle every threshold, with all four      *)
(* signal statuses, and handlePredict is run on it.                        *)
(***************************************************************************)
SignalStatuses == {"normal", "silent", "missing", "distress"}

FactorsDomain ==
    [ deviation_score          : DeviationInputs \cup {DefaultFactors.deviation_score},
      time_since_last_activity : InactivityInputs \cup {DefaultFactors.time_since_last_activity},
      signal_status            : SignalStatuses,
      altitude_change          : AltitudeInputs \cup {DefaultFactors.altitude_change},
      heart_rate               : HeartRateInputs \cup {DefaultFactors.heart_rate},
      oxygen_saturation        : OxygenInputs \cup {DefaultFactors.oxygen_saturation},
      body_temperature         : TemperatureInputs \cup {DefaultFactors.body_temperature},
      fall_detected            : BOOLEAN ]

InitEval ==
    /\ factors \in FactorsDomain
    /\ prediction = NULL
    /\ isLoading = FALSE
    /\ pending = <<>>
    /\ toasts = NoToast
    /\ evaluated = NULL
    /\ edits = 0
    /\ embeddings = <<>>
    /\ embPrediction = NULL
    /\ embIsLoading = FALSE
    /\ embPending = 0
    /\ embToasts = NoToast

NextEval ==
    \/ HandlePredict
    \/ TimerFires

SpecEval == InitEval /\ [][NextEval]_vars

(***************************************************************************)
(* The embedding dashboard (part_000).  The textarea's text is a sequence  *)
(* of characters; the characters typed are a digit, the sign, the decimal  *)
(* point, the separator, a blank and a letter.                             *)
(***************************************************************************)
Chars == {"1", "-", ".", ",", " ", "x"}
Digits == {"0", "1", "2", "3", "4", "5", "6", "7", "8", "9"}
WhiteSpace == {" "}
NaN == "NaN"

\* String.prototype.trim: white space removed at both ends.
RECURSIVE TrimStart(_)
TrimStart(s) ==
    IF s # <<>> /\ Head(s) \in WhiteSpace THEN TrimStart(Tail(s)) ELSE s

RECURSIVE TrimEnd(_)
TrimEnd(s) ==
    IF s # <<>> /\ s[Len(s)] \in WhiteSpace THEN TrimEnd(SubSeq(s, 1, Len(s) - 1)) ELSE s

Trim(s) == TrimEnd(TrimStart(s))

\* String.prototype.split(','): the pieces between the separators, empty ones kept.
RECURSIVE Split(_, _)
Split(s, sep) ==
    IF \E i \in 1..Len(s) : s[i] = sep
    THEN LET i == CHOOSE k \in 1..Len(s) : s[k] = sep /\ \A j \in 1..(k - 1) : s[j] # sep
         IN  <<SubSeq(s, 1, i - 1)>> \o Split(SubSeq(s, i + 1, Len(s)), sep)
    ELSE <<s>>

\* StrDecimalLiteral without exponent: sign? (digits [. digits?] | . digits).
IsStrDecimalLiteral(s) ==
    LET body == IF s # <<>> /\ Head(s) \in {"-", "+"} THEN Tail(s) ELSE s
    IN  /\ \A i \in 1..Len(body) : body[i] \in Digits \cup {"."}
        /\ Cardinality({i \in 1..Len(body) : body[i] = "."}) <= 1
        /\ \E i \in 1..Len(body) : body[i] \in Digits

\* parseFloat: leading white space skipped, then the longest prefix that is a
\* decimal literal; NaN when no prefix is one.  The number is kept as its literal.
ParseFloat(s) ==
    LET t == TrimStart(s)
        lens == {n \in 1..Len(t) : IsStrDecimalLiteral(SubSeq(t, 1, n))}
    IN  IF lens = {} THEN NaN
        ELSE SubSeq(t, 1, CHOOSE n \in lens : \A m \in lens : m <= n)

\* Line 39.
EmbeddingArray(text) ==
    LET parts == Split(text, ",")
    IN  [i \in 1..Len(parts) |-> ParseFloat(Trim(parts[i]))]

\* Line 41.
SomeIsNaN(arr) == \E i \in 1..Len(arr) : arr[i] = NaN

\* Lines 49-56, in hundredths: 0.75 + r * 0.2.
EmbPredictionResult(r) ==
    LET mockProbability == 75 + (r * 20) \div 100
        mockPrediction == IF mockProbability > 50 THEN "Positive" ELSE "Negative"
    IN  [ probability |-> mockProbability,
          prediction  |-> mockPrediction,
          confidence  |-> mockProbability ]

\* The texts one keystroke away: a character typed at the end, or the last one deleted.
Keystrokes(text) ==
    {Append(text, c) : c \in Chars}
        \cup (IF text = <<>> THEN {} ELSE {SubSeq(text, 1, Len(text) - 1)})

\* The textarea's onChange, line 151, once per keystroke.
SetEmbeddings ==
    /\ \E text \in Keystrokes(embeddings) :
         /\ Len(text) <= MaxLen
         /\ embeddings' = text
    /\ UNCHANGED <<embPrediction, embIsLoading, embPending, embToasts, anomalyVars>>

(***************************************************************************)
(* handlePredict, part_000 lines 29-64.  The button is disabled while      *)
(* isLoading (line 167).  The early return of lines 30-33 comes before     *)
(* setIsLoading(true); a throw at line 42 runs catch and finally in the    *)
(* same step, so isLoading ends false.                                     *)
(***************************************************************************)
EmbHandlePredict ==
    /\ ~embIsLoading
    /\ IF Trim(embeddings) = <<>>
       THEN /\ embToasts' = ToastError("Please enter embedding values")
            /\ UNCHANGED <<embIsLoading, embPending>>
       ELSE IF SomeIsNaN(EmbeddingArray(embeddings))
       THEN /\ embToasts' =
                  ToastError("Invalid embedding format. Please use comma-separated numbers.")
            /\ embIsLoading' = FALSE
            /\ UNCHANGED embPending
       ELSE /\ embIsLoading' = TRUE
            /\ embPending' = embPending + 1
            /\ UNCHANGED embToasts
    /\ UNCHANGED <<embeddings, embPrediction, anomalyVars>>

\* The timer of line 46 fires and a suspended call runs lines 49-63.
EmbTimerFires ==
    /\ embPending > 0
    /\ \E r \in MathRandom : embPrediction' = EmbPredictionResult(r)
    /\ embToasts' = ToastSuccess("Prediction completed successfully!")
    /\ embIsLoading' = FALSE
    /\ embPending' = embPending - 1
    /\ UNCHANGED <<embeddings, anomalyVars>>

NextEmbed ==
    \/ SetEmbeddings
    \/ EmbHandlePredict
    \/ EmbTimerFires

SpecEmbed == Init /\ [][NextEmbed]_vars

(***************************************************************************)
(* The rule table of the specification, section 4.1: rule i's predicate    *)
(* and label, and the list obtained by walking rules 1..10 in order.       *)
(***************************************************************************)
RuleLabel ==
    << "Route deviation", "Prolonged inactivity", "Silent behavior", "Missing signal",
       "Distress signal", "Sudden altitude drop", "Heart rate anomaly", "Oxygen anomaly",
       "Temperature anomaly", "Fall detected" >>

RuleCount == Len(RuleLabel)

RulePredicate(i, f) ==
    CASE i = 1  -> f.deviation_score > 200
      [] i = 2  -> f.time_since_last_activity > 30
      [] i = 3  -> f.signal_status = "silent" /\ f.time_since_last_activity > 20
      [] i = 4  -> f.signal_status = "missing"
      [] i = 5  -> f.signal_status = "distress"
      [] i = 6  -> f.altitude_change < -15
      [] i = 7  -> f.heart_rate < 45 \/ f.heart_rate > 150
      [] i = 8  -> f.oxygen_saturation < 90
      [] i = 9  -> f.body_temperature > 385
      [] i = 10 -> f.fall_detected = TRUE

RECURSIVE RuleWalk(_, _)
RuleWalk(i, f) ==
    IF i > RuleCount THEN <<>>
    ELSE (IF RulePredicate(i, f) THEN <<RuleLabel[i]>> ELSE <<>>) \o RuleWalk(i + 1, f)

NoDuplicates(seq) == \A i, j \in 1..Len(seq) : seq[i] = seq[j] => i = j

\* Every triggered-factor list of the state with the record it was built from: those
\* of the suspended calls and that of the stored prediction.
BuiltLists ==
    {<<pending[i].factors, pending[i].triggeredFactors>> : i \in 1..Len(pending)}
        \cup (IF prediction = NULL THEN {}
              ELSE {<<evaluated, prediction.triggered_factors>>})

\* C1: every triggered_factors list handlePredict builds equals the list obtained by
\* walking rules 1..10 of the table in order and appending a rule's label exactly
\* when its predicate holds: same labels, same order, each label at most once.
C1_TriggeredEqualsRuleWalk ==
    \A b \in BuiltLists : b[2] = RuleWalk(1, b[1]) /\ NoDuplicates(b[2])

\* C1 witness: a stored prediction for a record with a missing signal in which
\* at least four rules fired.
C1_Witness ==
    /\ prediction # NULL
    /\ evaluated.signal_status = "missing"
    /\ Len(prediction.triggered_factors) >= 4

\* The boundary records of the strict-inequality contract: the defaults with one
\* field set exactly to its threshold.
BoundaryRecords ==
    { [DefaultFactors EXCEPT !.deviation_score = 200],
      [DefaultFactors EXCEPT !.time_since_last_activity = 30],
      [DefaultFactors EXCEPT !.altitude_change = -15],
      [DefaultFactors EXCEPT !.heart_rate = 45],
      [DefaultFactors EXCEPT !.heart_rate = 150],
      [DefaultFactors EXCEPT !.oxygen_saturation = 90],
      [DefaultFactors EXCEPT !.body_temperature = 385] }

InSeq(x, seq) == \E i \in 1..Len(seq) : seq[i] = x

\* C2: a stored prediction for a boundary record (exactly 200, 30, -15, 45, 150, 90
\* or 38.5, the other fields at their defaults) has an empty triggered_factors and
\* anomaly_flag false; with signal_status "silent", inactivity 20 does not produce
\* "Silent behavior" and inactivity 21 does.
C2_StrictBoundaries ==
    prediction # NULL =>
        /\ evaluated \in BoundaryRecords =>
               prediction.triggered_factors = <<>> /\ prediction.anomaly_flag = FALSE
        /\ evaluated.signal_status = "silent" /\ evaluated.time_since_last_activity = 20 =>
               ~InSeq("Silent behavior", prediction.triggered_factors)
        /\ evaluated.signal_status = "silent" /\ evaluated.time_since_last_activity = 21 =>
               InSeq("Silent behavior", prediction.triggered_factors)

\* C2 witness: a stored prediction for the defaults with heart rate exactly 150.
C2_Witness ==
    /\ prediction # NULL
    /\ evaluated = [DefaultFactors EXCEPT !.heart_rate = 150]

\* C3: in every stored prediction anomaly_flag is true if and only if at least one of
\* the ten rules fired, if and only if triggered_factors is non-empty.
C3_FlagIffSomeRuleFired ==
    prediction # NULL =>
        /\ prediction.anomaly_flag = (\E i \in 1..RuleCount : RulePredicate(i, evaluated))
        /\ prediction.anomaly_flag = (prediction.triggered_factors # <<>>)

\* C3 witness: a stored prediction in which exactly one rule fired.
C3_Witness ==
    /\ prediction # NULL
    /\ Len(prediction.triggered_factors) = 1
    /\ prediction.anomaly_flag = TRUE

(***************************************************************************)
(* Rule independence.                                                      *)
(***************************************************************************)
Rules == 1..RuleCount

\* The rules that test signal_status: Silent behavior, Missing signal, Distress signal.
SignalRules == {3, 4, 5}

\* Whether handlePredict pushes rule i's label for record f.
Fires(i, f) == InSeq(RuleLabel[i], TriggeredFactors(f))

FiredRules(f) == {i \in Rules : Fires(i, f)}

\* The sets of rules fired by the records of the domain.
FiredRuleSets == {FiredRules(f) : f \in FactorsDomain}

\* C4, as claimed: whether one rule fired in the stored prediction places no
\* constraint on any other rule: for every rule i, every other rule j and either
\* outcome b, some record agrees with the evaluated one on rule i and has rule j's
\* outcome equal to b.
C4_NoRuleConstrainsAnother ==
    prediction # NULL =>
        \A i \in Rules : \A j \in Rules \ {i} : \A b \in BOOLEAN :
            \E S \in FiredRuleSets :
                /\ (i \in S) = InSeq(RuleLabel[i], prediction.triggered_factors)
                /\ (j \in S) = b

\* The sets of rules that hold at most one signal-status rule are exactly those fired.
ExactlyAdmissibleSetsFire ==
    FiredRuleSets = {S \in SUBSET Rules : Cardinality(S \cap SignalRules) <= 1}

\* C4, amended: the three signal-status rules are mutually exclusive (at most one of
\* their labels is in any list handlePredict builds), and every set of rules holding
\* at most one of them, and no other set, is the set fired by some record.
C4_IndependentUpToSignalRules ==
    /\ \A b \in BuiltLists :
           Cardinality({i \in SignalRules : InSeq(RuleLabel[i], b[2])}) <= 1
    /\ ExactlyAdmissibleSetsFire

\* C4 witness: a stored prediction in which "Distress signal" fired together with
\* "Prolonged inactivity" and "Fall detected".
C4_Witness ==
    /\ prediction # NULL
    /\ InSeq("Distress signal", prediction.triggered_factors)
    /\ InSeq("Prolonged inactivity", prediction.triggered_factors)
    /\ InSeq("Fall detected", prediction.triggered_factors)

(***************************************************************************)
(* Determinism.                                                            *)
(***************************************************************************)
\* C5: when a prediction is stored for the same factors record as the prediction it
\* replaces, it has the same triggered_factors (labels and order) and the same
\* anomaly_flag, whatever was predicted earlier and whatever Math.random returned.
C5_Deterministic ==
    [][ (prediction # NULL /\ prediction' # NULL /\ evaluated' = evaluated) =>
            /\ prediction'.triggered_factors = prediction.triggered_factors
            /\ prediction'.anomaly_flag = prediction.anomaly_flag ]_vars

\* C5 witness: a second evaluation of the record of the stored prediction, which
\* fired some rule, has built its list and awaits the timer.
C5_Witness ==
    /\ prediction # NULL
    /\ prediction.triggered_factors # <<>>
    /\ pending # <<>>
    /\ Head(pending).factors = evaluated
    /\ Head(pending).triggeredFactors # <<>>

(***************************************************************************)
(* The two documented records.                                             *)
(***************************************************************************)
DocumentedSample ==
    [ deviation_score |-> 250, time_since_last_activity |-> 35, signal_status |-> "silent",
      altitude_change |-> -20, heart_rate |-> 160, oxygen_saturation |-> 85,
      body_temperature |-> 392, fall_detected |-> TRUE ]

DocumentedDefault ==
    [ deviation_score |-> 0, time_since_last_activity |-> 0, signal_status |-> "normal",
      altitude_change |-> 0, heart_rate |-> 70, oxygen_saturation |-> 98,
      body_temperature |-> 365, fall_detected |-> FALSE ]

\* C6: loadSampleData installs the documented sample record (with no edit the factors
\* are the defaults or that record), and a prediction of it has triggered_factors
\* equal to the eight documented labels in the documented order and anomaly_flag true.
C6_SamplePrediction ==
    /\ edits = 0 /\ toasts = ToastSuccess("Sample anomaly data loaded") =>
           factors = DocumentedSample
    /\ prediction # NULL /\ evaluated = DocumentedSample =>
           /\ prediction.triggered_factors =
                  << "Route deviation", "Prolonged inactivity", "Silent behavior",
                     "Sudden altitude drop", "Heart rate anomaly", "Oxygen anomaly",
                     "Temperature anomaly", "Fall detected" >>
           /\ prediction.anomaly_flag = TRUE

\* C6 witness: with no edit made, the stored prediction is that of the sample record.
C6_Witness ==
    /\ edits = 0
    /\ factors = DocumentedSample
    /\ prediction # NULL
    /\ evaluated = DocumentedSample

\* C7: the factors of a freshly mounted dashboard (no notice given, no edit made) are
\* the documented defaults, and a prediction of them has an empty triggered_factors,
\* anomaly_flag false and the label "Normal Behavior".
C7_DefaultPrediction ==
    /\ edits = 0 /\ toasts = NoToast => factors = DocumentedDefault
    /\ prediction # NULL /\ evaluated = DocumentedDefault =>
           /\ prediction.triggered_factors = <<>>
           /\ prediction.anomaly_flag = FALSE
           /\ prediction.prediction = "Normal Behavior"

\* C7 witness: with no edit made and no sample loaded, the stored prediction is that
\* of the defaults.
C7_Witness ==
    /\ edits = 0
    /\ factors = DocumentedDefault
    /\ prediction # NULL
    /\ evaluated = DocumentedDefault

(***************************************************************************)
(* The results card, MLDashboard.tsx lines 279-331.                        *)
(***************************************************************************)
\* Lines 303-307: one badge per label, keyed by its index.
Badges(triggered_factors) ==
    [index \in 1..Len(triggered_factors) |->
        [key |-> index - 1, text |-> triggered_factors[index]]]

\* Mutant: the badge section is rendered for every prediction.
BadgeSectionShownAlways(p) == TRUE

\* Line 297.
BadgeSectionShown(p) == Len(p.triggered_factors) > 0

\* Lines 279-311: the headline and, when shown, the badges.
ResultsCard ==
    IF prediction = NULL THEN [shown |-> FALSE]
    ELSE [ shown        |-> TRUE,
           headline     |-> prediction.prediction,
           badgeSection |-> BadgeSectionShown(prediction),
           badges       |-> IF BadgeSectionShown(prediction)
                            THEN Badges(prediction.triggered_factors) ELSE <<>> ]

\* C8: the display state of a stored prediction is binary and tied to the flag
\* ("Anomaly Detected" exactly when anomaly_flag, "Normal Behavior" exactly when not);
\* the badge section is shown only when triggered_factors is non-empty, with one
\* badge per label, in order.
C8_DisplayTiedToFlag ==
    prediction # NULL =>
        /\ (prediction.prediction = "Anomaly Detected") = prediction.anomaly_flag
        /\ (prediction.prediction = "Normal Behavior") = ~prediction.anomaly_flag
        /\ ResultsCard.headline = prediction.prediction
        /\ ResultsCard.badgeSection = (prediction.triggered_factors # <<>>)
        /\ Len(ResultsCard.badges) = Len(prediction.triggered_factors)
        /\ \A i \in 1..Len(prediction.triggered_factors) :
               ResultsCard.badges[i].text = prediction.triggered_factors[i]

\* C8 witness: a stored prediction shown with two badges or more.
C8_Witness ==
    /\ prediction # NULL
    /\ ResultsCard.badgeSection
    /\ Len(ResultsCard.badges) >= 2

(***************************************************************************)
(* Error outcomes.                                                         *)
(***************************************************************************)
\* C9: the anomaly evaluation has no error outcome: no failure notice is ever given,
\* every invocation is either suspended at the delay with isLoading true or has
\* stored its prediction with the success notice, for every record of the domain,
\* out-of-range values included.
C9_NoErrorOutcome ==
    /\ toasts.kind # "error"
    /\ Len(pending) = (IF isLoading THEN 1 ELSE 0)
    /\ (toasts = ToastSuccess("Prediction completed successfully!")) = (prediction # NULL)

\* C9 witness: a prediction stored with the success notice for a record whose oxygen
\* saturation is negative.
C9_Witness ==
    /\ prediction # NULL
    /\ evaluated.oxygen_saturation < 0
    /\ toasts.kind = "success"
    /\ ~isLoading

\* Whether a comma-separated token is a number: trimmed, the whole of it is a
\* decimal literal.
IsNumber(token) == IsStrDecimalLiteral(Trim(token))

AllTokensNumbers(text) ==
    LET parts == Split(text, ",") IN \A i \in 1..Len(parts) : IsNumber(parts[i])

\* C10: whenever the embedding text is blank or one of its comma-separated tokens is
\* not a number, handlePredict gives a failure notice, leaves the stored prediction
\* as it was, ends with isLoading false and starts no delay.
C10_RejectsNonNumericText ==
    [][ (EmbHandlePredict /\ (Trim(embeddings) = <<>> \/ ~AllTokensNumbers(embeddings))) =>
            /\ embToasts'.kind = "error"
            /\ embPrediction' = embPrediction
            /\ embIsLoading' = FALSE
            /\ embPending' = embPending ]_vars

(***************************************************************************)
(* The prediction in flight.                                               *)
(***************************************************************************)
\* C11: the factors record is immutable per evaluation: a change of the factors (a
\* field edit or loadSampleData) changes neither a suspended call nor the stored
\* prediction; a call that starts keeps the factors of that moment; and the
\* triggered_factors and anomaly_flag stored when it completes are those of the
\* factors it started with, whatever the factors have become during the delay.
C11_ResultOfFactorsAtInvocation ==
    [][ /\ factors' # factors => UNCHANGED <<pending, prediction, evaluated, isLoading>>
        /\ Len(pending') > Len(pending) => pending'[Len(pending')].factors = factors
        /\ Len(pending') < Len(pending) =>
               /\ prediction'.triggered_factors = RuleWalk(1, Head(pending).factors)
               /\ prediction'.anomaly_flag =
                      (\E i \in Rules : RulePredicate(i, Head(pending).factors)) ]_vars

\* C11 witness: with no edit made, the last notice is that of a completed prediction,
\* the stored prediction is that of the defaults and the factors are the sample
\* record: loadSampleData ran during the delay, and the result is the defaults' one.
C11_Witness ==
    /\ edits = 0
    /\ toasts = ToastSuccess("Prediction completed successfully!")
    /\ factors = DocumentedSample
    /\ prediction # NULL
    /\ evaluated = DocumentedDefault
    /\ prediction.triggered_factors = <<>>
    /\ prediction.anomaly_flag = FALSE

(***************************************************************************)
(* Either dashboard in use.  The two files are two versions of the one     *)
(* MLDashboard component: a page mounts one of them, so a run uses one and *)
(* leaves the other as constructed.  A timer started by setTimeout fires   *)
(* after its delay: the continuations are weakly fair.                     *)
(***************************************************************************)
AnomalyUnused ==
    /\ factors = DefaultFactors
    /\ prediction = NULL
    /\ isLoading = FALSE
    /\ pending = <<>>
    /\ toasts = NoToast
    /\ evaluated = NULL
    /\ edits = 0

EmbedUnused ==
    /\ embeddings = <<>>
    /\ embPrediction = NULL
    /\ embIsLoading = FALSE
    /\ embPending = 0
    /\ embToasts = NoToast

NextDashboards ==
    \/ EmbedUnused /\ Next
    \/ AnomalyUnused /\ NextEmbed

SpecDashboards ==
    Init /\ [][NextDashboards]_vars /\ WF_vars(TimerFires) /\ WF_vars(EmbTimerFires)

\* C12: in either dashboard isLoading, once true, eventually becomes false again (the
\* delay timer fires), and the step that clears it has stored the prediction of the
\* call that completes.
\* (isLoading ~> ~isLoading is written in its equivalent form []<>~isLoading.)
C12_LoadingEventuallyCleared ==
    /\ []<>~isLoading
    /\ []<>~embIsLoading
    /\ [][ /\ (isLoading /\ ~isLoading') =>
                  /\ pending # <<>>
                  /\ \E r \in MathRandom :
                         prediction' = PredictionResult(Head(pending).triggeredFactors, r)
           /\ (embIsLoading /\ ~embIsLoading') =>
                  /\ embPending > 0
                  /\ \E r \in MathRandom : embPrediction' = EmbPredictionResult(r) ]_vars

\* C12 witness: in the anomaly dashboard a second prediction has completed: isLoading
\* is false again, the stored prediction is that of the sample record, loaded after
\* the first prediction was stored.
C12_Witness ==
    /\ ~isLoading
    /\ pending = <<>>
    /\ prediction # NULL
    /\ toasts = ToastSuccess("Prediction completed successfully!")
    /\ evaluated = DocumentedSample

\* C13: in either dashboard at most one prediction is in flight, and one is in flight
\* exactly while isLoading is true; so a call starts only when none is suspended and
\* the results are stored in the order of the requests.
C13_AtMostOneInFlight ==
    /\ Len(pending) <= 1
    /\ isLoading = (Len(pending) = 1)
    /\ embPending <= 1
    /\ embIsLoading = (embPending = 1)

\* C13 witness: a second prediction, of another record, is in flight after the first
\* one was stored.
C13_Witness ==
    /\ isLoading
    /\ Len(pending) = 1
    /\ prediction # NULL
    /\ Head(pending).factors # evaluated

(***************************************************************************)
(* The fields no input changes.                                            *)
(***************************************************************************)
\* C14: signal_status and fall_detected are changed by loadSampleData alone: in every
\* state signal_status is "normal" or "silent" and no stored prediction holds
\* "Missing signal" or "Distress signal"; loadSampleData sets fall_detected, which
\* then stays true, so every call started with it set builds a list that holds
\* "Fall detected" and every prediction stored for such a record has anomaly_flag true.
C14_SignalAndFallOnlyBySample ==
    /\ [](/\ factors.signal_status \in {"normal", "silent"}
          /\ prediction # NULL =>
                 /\ ~InSeq("Missing signal", prediction.triggered_factors)
                 /\ ~InSeq("Distress signal", prediction.triggered_factors)
                 /\ evaluated.fall_detected =>
                        /\ prediction.anomaly_flag = TRUE
                        /\ InSeq("Fall detected", prediction.triggered_factors)
          /\ \A i \in 1..Len(pending) :
                 pending[i].factors.fall_detected =>
                     InSeq("Fall detected", pending[i].triggeredFactors))
    /\ [][ /\ factors.fall_detected => factors'.fall_detected
           /\ toasts' = ToastSuccess("Sample anomaly data loaded") /\ toasts' # toasts =>
                  factors'.fall_detected
           /\ Len(pending') > Len(pending) /\ factors.fall_detected =>
                  pending'[Len(pending')].factors.fall_detected
           /\ (\/ factors'.signal_status # factors.signal_status
               \/ factors'.fall_detected # factors.fall_detected) =>
                  /\ factors' = DocumentedSample
                  /\ toasts' = ToastSuccess("Sample anomaly data loaded") ]_vars

\* C14 witness: after the sample was loaded and two fields were set to values that
\* trigger nothing, the stored prediction still holds "Fall detected".
C14_Witness ==
    /\ prediction # NULL
    /\ evaluated.fall_detected
    /\ evaluated.heart_rate = 45
    /\ evaluated.oxygen_saturation = 90
    /\ prediction.anomaly_flag = TRUE
    /\ InSeq("Fall detected", prediction.triggered_factors)

====
